---- MODULE Spec2Model ----
(***************************************************************************)
(* State-machine model of the msig_court ink! contract                     *)
(* (contracts/msig_court/lib.rs): a committee of judges proposes and       *)
(* approves privileged actions, which wait out a veto period before anyone *)
(* may trigger their execution.                                            *)
(*                                                                         *)
(* Storage is modelled field by field.  An ink! Mapping is a function      *)
(* whose DOMAIN is the set of keys that hold a value.  The hash of a       *)
(* proposal is modelled as an injection from proposals to key names.       *)
(*                                                                         *)
(* Every message is one action.  `last` records the call just made         *)
(* (message, caller, key, block number, returned value) and `emitted` the  *)
(* events it emitted, in order, until Complete hands them to the caller;   *)
(* calls are atomic, so the next call starts after that.  `dispatched` is  *)
(* a history counter: how often the effect of a key has been dispatched by *)
(* execute_pending.                                                        *)
(***************************************************************************)
EXTENDS Integers, Sequences, FiniteSets, TLC

VARIABLES
    threshold,            \* lib.rs:72  u32
    judges,               \* lib.rs:73  Vec<AccountId>
    veto_authority,       \* lib.rs:74  AccountId
    proposals,            \* lib.rs:75  Mapping<PropKey, Proposal>
    approvals,            \* lib.rs:76  Mapping<PropKey, Vec<AccountId>>
    pending_executions,   \* lib.rs:77  Mapping<PropKey, (Proposal, BlockNumber)>
    vetoed,               \* lib.rs:78  Mapping<PropKey, bool>
    now,                  \* lib.rs:145, 280  self.env().block_number()
    host_reverts,         \* whether the host rolls storage back when a message
                          \* returns Err: the on-chain dispatcher does, a direct
                          \* call of the method (lib.rs:462-472) does not
    last,                 \* the call just made and what it returned
    emitted,              \* events emitted by that call
    dispatched,           \* history: dispatches per key (lib.rs:287), saturating
    advances,             \* number of block-advance steps taken so far
    proposes,             \* number of successful propose calls so far
    approvers,            \* history: per key that the calls returned
                          \* PendingApprovals for and not yet
                          \* PendingVetoPeriod, the callers of those calls
                          \* in call order, from its propose on
    AccountIdToEvm,       \* evm-accounts lib.rs:42  StorageMap<AccountId, H160>
    EvmToAccountId,       \* evm-accounts lib.rs:46  StorageMap<H160, AccountId>
    linked                \* the link_account call just made, what it
                          \* returned and the event it deposited

storage == <<proposals, approvals, pending_executions, vetoed>>
governance == <<threshold, judges, veto_authority>>
vars == <<threshold, judges, veto_authority, proposals, approvals,
          pending_executions, vetoed, now, host_reverts, last, emitted,
          dispatched, advances, proposes, approvers,
          AccountIdToEvm, EvmToAccountId, linked>>
\* the evm-accounts pallet, a program of its own
pallet == <<AccountIdToEvm, EvmToAccountId, linked>>

----------------------------------------------------------------------------
(* Bounds of the model *)

\* block-advance steps explored
MaxGenesis == 2
MaxAdvances == 2
\* successful propose calls explored
MaxProposes == 2
\* the dispatch counter saturates here
DispatchCap == 2

----------------------------------------------------------------------------
(* Program constants *)

DEFAULT_VETO_PERIOD == 201600

\* BlockNumber::MAX, where now.saturating_add(veto_period) saturates.  The
\* contract's BlockNumber is a u32; the largest integer TLC represents is
\* 2^31 - 1, which stands for it here.
BlockNumberMax == 2147483647

----------------------------------------------------------------------------
(* Accounts, proposals, keys *)

alice == "alice"
bob == "bob"
charlie == "charlie"
django == "django"
Accounts == {alice, bob, charlie, django}

\* enum Proposal
LLMForceTransfer(args) == [tag |-> "LLMForceTransfer", args |-> args]
SetGovernance(t, js) == [tag |-> "SetGovernance", threshold |-> t, judges |-> js]

\* the proposals callers submit
Transfer == LLMForceTransfer([from |-> alice, to |-> bob, amount |-> 1])
GovValid == SetGovernance(1, <<alice, bob>>)
GovInvalid == SetGovernance(3, <<alice, bob>>)
ProposalInputs == {Transfer, GovValid, GovInvalid}

\* hash_encoded::<Blake2x256>(&proposal): equal content, equal key; distinct
\* content, distinct key
KeyOf(p) ==
    CASE p = Transfer   -> "h_transfer"
      [] p = GovValid   -> "h_gov_valid"
      [] p = GovInvalid -> "h_gov_invalid"

\* the keys callers pass
Keys == {KeyOf(p) : p \in ProposalInputs}

----------------------------------------------------------------------------
(* ink! Mapping *)

EmptyMapping == [k \in {} |-> TRUE]
MapContains(m, k) == k \in DOMAIN m
MapInsert(m, k, v) == [x \in (DOMAIN m) \cup {k} |-> IF x = k THEN v ELSE m[x]]
MapRemove(m, k) == [x \in (DOMAIN m) \ {k} |-> m[x]]

\* Vec::contains
Contains(vec, a) == \E i \in 1..Len(vec) : vec[i] = a

\* faulty variant: the sum wraps around at the largest block number
WrappingAdd(a, b) ==
    IF a > BlockNumberMax - b THEN a - (BlockNumberMax - b) - 1 ELSE a + b
\* BlockNumber::saturating_add
SaturatingAdd(a, b) == IF a > BlockNumberMax - b THEN BlockNumberMax ELSE a + b

----------------------------------------------------------------------------
(* Returned values and events *)

Ok(v) == [ok |-> TRUE, val |-> v, outcome |-> "-"]
Err(e) == [ok |-> FALSE, val |-> e, outcome |-> "-"]
\* Ok(ProposalState::Executed(outcome)); outcome is "Ok" or the Error
OkExecuted(outcome) == [ok |-> TRUE, val |-> "Executed", outcome |-> outcome]

\* Option<T>
None == [some |-> FALSE]
Some(v) == [some |-> TRUE, value |-> v]

\* no link_account call made
NoLink == [op |-> "none"]

\* found: what pending_executions.get(key) held when the call was made
NoCall ==
    [op |-> "none", caller |-> "-", key |-> "-", now |-> 0, found |-> None,
     result |-> Ok("-")]
Call(op, caller, key, height, found, result) ==
    [op |-> op, caller |-> caller, key |-> key, now |-> height, found |-> found,
     result |-> result]

\* the contract's events
Proposed(proposer, key, proposal) ==
    [event |-> "Proposed", proposer |-> proposer, key |-> key, proposal |-> proposal]
Approved(approver, key) ==
    [event |-> "Approved", approver |-> approver, key |-> key]
Executed(approver, key, result) ==
    [event |-> "Executed", approver |-> approver, key |-> key, result |-> result]
PendingExecution(approver, key, execute_after) ==
    [event |-> "PendingExecution", approver |-> approver, key |-> key,
     execute_after |-> execute_after]
Vetoed(vetoer, key) ==
    [event |-> "Vetoed", vetoer |-> vetoer, key |-> key]

----------------------------------------------------------------------------
(* The contract.  A message body is an operator from the storage it starts *)
(* with to the storage it ends with, the events it emits and the value it  *)
(* returns; Cur is the storage a message starts with.                      *)

veto_period == DEFAULT_VETO_PERIOD

Cur ==
    [threshold |-> threshold, judges |-> judges,
     proposals |-> proposals, approvals |-> approvals,
     pending_executions |-> pending_executions, vetoed |-> vetoed,
     events |-> <<>>, result |-> Ok("-")]

\* faulty variant: the newest event is put in front of the earlier ones
EmitInFront(st, e) == [st EXCEPT !.events = <<e>> \o @]
Emit(st, e) == [st EXCEPT !.events = Append(@, e)]
Return(st, r) == [st EXCEPT !.result = r]

\* faulty variant: a threshold of zero is never reached
ThresholdReachedIfPositive(n, t) == t > 0 /\ n + 1 >= t
\* faulty variant: the count has to hit the threshold exactly
ThresholdReachedExactly(n, t) == n + 1 = t
\* faulty variant: the new approver is not counted
ThresholdReachedWithoutNewApprover(n, t) == n >= t
\* approvals.len().saturating_add(1) >= self.threshold
ThresholdReached(n, t) == n + 1 >= t

\* faulty variant: off by one
InvalidParametersOffByOne(t, js) == t > Len(js) + 1
\* threshold as usize > judges.len()
InvalidParameters(t, js) == t > Len(js)

\* faulty variant: the block equal to execute_after still counts as veto period
StillInVetoPeriodInclusive(height, execute_after) == height <= execute_after
\* now < execute_after
StillInVetoPeriod(height, execute_after) == height < execute_after

\* faulty variant: the fields are assigned before the parameters are validated
set_governance_assigns_first(st, t, js) ==
    [st |-> [st EXCEPT !.threshold = t, !.judges = js],
     result |-> IF InvalidParameters(t, js) THEN "InvalidParameters" ELSE "Ok"]
\* faulty variant: only the threshold is replaced
set_governance_keeps_judges(st, t, js) ==
    IF InvalidParameters(t, js)
    THEN [st |-> st, result |-> "InvalidParameters"]
    ELSE [st |-> [st EXCEPT !.threshold = t], result |-> "Ok"]
set_governance(st, t, js) ==
    IF InvalidParameters(t, js)
    THEN [st |-> st, result |-> "InvalidParameters"]
    ELSE [st |-> [st EXCEPT !.threshold = t, !.judges = js], result |-> "Ok"]

\* ledger_ok: whether the chain extension accepts the force-transfer
execute(st, proposal, ledger_ok) ==
    IF proposal.tag = "LLMForceTransfer"
    THEN [st |-> st, result |-> IF ledger_ok THEN "Ok" ELSE "CallFailed"]
    ELSE set_governance(st, proposal.threshold, proposal.judges)

\* faulty variant: an approver already in the set is added again
do_approve_without_duplicate_check(st, approver, key) ==
    IF ~MapContains(st.approvals, key)
    THEN Return(st, Err("NotFound"))
    ELSE
      LET taken == st.approvals[key]
          st1 == [st EXCEPT !.approvals = MapRemove(@, key)]
      IN  IF ThresholdReached(Len(taken), st1.threshold)
          THEN IF ~MapContains(st1.proposals, key)
               THEN Return(st, [ok |-> FALSE, val |-> "panic", outcome |-> "-"])
               ELSE
                 LET proposal == st1.proposals[key]
                     execute_after == SaturatingAdd(now, veto_period)
                     st2 == [st1 EXCEPT
                               !.proposals = MapRemove(@, key),
                               !.pending_executions =
                                   MapInsert(@, key, <<proposal, execute_after>>)]
                 IN  Return(Emit(st2, PendingExecution(approver, key, execute_after)),
                            Ok("PendingVetoPeriod"))
          ELSE
            LET st2 == [st1 EXCEPT
                          !.approvals = MapInsert(@, key, Append(taken, approver))]
            IN  Return(Emit(st2, Approved(approver, key)), Ok("PendingApprovals"))
do_approve(st, approver, key) ==
    IF ~MapContains(st.approvals, key)
    THEN Return(st, Err("NotFound"))
    ELSE
      LET taken == st.approvals[key]
          st1 == [st EXCEPT !.approvals = MapRemove(@, key)]
      IN  IF Contains(taken, approver)
          THEN Return(st1, Err("AlreadyApproved"))
          ELSE IF ThresholdReached(Len(taken), st1.threshold)
          THEN IF ~MapContains(st1.proposals, key)
               THEN Return(st, [ok |-> FALSE, val |-> "panic", outcome |-> "-"])
               ELSE
                 LET proposal == st1.proposals[key]
                     execute_after == SaturatingAdd(now, veto_period)
                     st2 == [st1 EXCEPT
                               !.proposals = MapRemove(@, key),
                               !.pending_executions =
                                   MapInsert(@, key, <<proposal, execute_after>>)]
                 IN  Return(Emit(st2, PendingExecution(approver, key, execute_after)),
                            Ok("PendingVetoPeriod"))
          ELSE
            LET st2 == [st1 EXCEPT
                          !.approvals = MapInsert(@, key, Append(taken, approver))]
            IN  Return(Emit(st2, Approved(approver, key)), Ok("PendingApprovals"))

\* faulty variant: a proposal that is already stored is stored again
propose_without_duplicate_check(st, caller, proposal) ==
    IF ~Contains(st.judges, caller)
    THEN Return(st, Err("Unauthorized"))
    ELSE
      LET key == KeyOf(proposal)
          st1 == [st EXCEPT
                    !.proposals = MapInsert(@, key, proposal),
                    !.approvals = MapInsert(@, key, <<>>)]
      IN  do_approve(Emit(st1, Proposed(caller, key, proposal)), caller, key)
propose(st, caller, proposal) ==
    IF ~Contains(st.judges, caller)
    THEN Return(st, Err("Unauthorized"))
    ELSE
      LET key == KeyOf(proposal)
      IN  IF MapContains(st.proposals, key)
          THEN Return(st, Err("AlreadyExists"))
          ELSE
            LET st1 == [st EXCEPT
                          !.proposals = MapInsert(@, key, proposal),
                          !.approvals = MapInsert(@, key, <<>>)]
            IN  do_approve(Emit(st1, Proposed(caller, key, proposal)), caller, key)

\* faulty variant: the caller is checked after the approval is recorded
approve_checks_caller_late(st, caller, key) ==
    LET st1 == do_approve(st, caller, key)
    IN  IF ~Contains(st.judges, caller)
        THEN Return(st1, Err("Unauthorized"))
        ELSE st1
approve(st, caller, key) ==
    IF ~Contains(st.judges, caller)
    THEN Return(st, Err("Unauthorized"))
    ELSE do_approve(st, caller, key)

get_threshold == threshold
get_judges == judges
get_veto_authority == veto_authority

\* Some((self.proposals.get(key)?, self.approvals.get(key)?))
get_proposal(key) ==
    IF MapContains(proposals, key) /\ MapContains(approvals, key)
    THEN Some(<<proposals[key], approvals[key]>>)
    ELSE None

\* faulty variant: the key is not looked up in pending_executions
veto_without_lookup(st, caller, key) ==
    IF caller # veto_authority
    THEN Return(st, Err("NotVetoAuthority"))
    ELSE
      LET st1 == [st EXCEPT
                    !.pending_executions = MapRemove(@, key),
                    !.vetoed = MapInsert(@, key, TRUE)]
      IN  Return(Emit(st1, Vetoed(caller, key)), Ok("()"))
\* faulty variant: an entry whose veto period is over cannot be vetoed
veto_only_during_veto_period(st, caller, key) ==
    IF caller # veto_authority
    THEN Return(st, Err("NotVetoAuthority"))
    ELSE IF ~MapContains(st.pending_executions, key)
    THEN Return(st, Err("NotFound"))
    ELSE IF ~StillInVetoPeriod(now, st.pending_executions[key][2])
    THEN Return(st, Err("NotFound"))
    ELSE
      LET st1 == [st EXCEPT
                    !.pending_executions = MapRemove(@, key),
                    !.vetoed = MapInsert(@, key, TRUE)]
      IN  Return(Emit(st1, Vetoed(caller, key)), Ok("()"))
veto(st, caller, key) ==
    IF caller # veto_authority
    THEN Return(st, Err("NotVetoAuthority"))
    ELSE IF ~MapContains(st.pending_executions, key)
    THEN Return(st, Err("NotFound"))
    ELSE
      LET st1 == [st EXCEPT
                    !.pending_executions = MapRemove(@, key),
                    !.vetoed = MapInsert(@, key, TRUE)]
      IN  Return(Emit(st1, Vetoed(caller, key)), Ok("()"))

\* faulty variant: the flag is not read
IsVetoedIgnored(m, key) == FALSE
\* self.vetoed.get(key).unwrap_or(false)
IsVetoed(m, key) == IF MapContains(m, key) THEN m[key] ELSE FALSE

\* faulty variant: only a judge may trigger the execution
execute_pending_by_judges_only(st, caller, key, ledger_ok) ==
    IF ~Contains(st.judges, caller)
    THEN Return(st, Err("Unauthorized"))
    ELSE IF IsVetoed(st.vetoed, key)
    THEN Return(st, Err("AlreadyVetoed"))
    ELSE IF ~MapContains(st.pending_executions, key)
    THEN Return(st, Err("NotFound"))
    ELSE
      LET proposal == st.pending_executions[key][1]
          execute_after == st.pending_executions[key][2]
      IN  IF StillInVetoPeriod(now, execute_after)
          THEN Return(st, Err("StillInVetoPeriod"))
          ELSE
            LET st1 == [st EXCEPT !.pending_executions = MapRemove(@, key)]
                ex == execute(st1, proposal, ledger_ok)
            IN  Return(Emit(ex.st, Executed(caller, key, ex.result)),
                       OkExecuted(ex.result))
\* faulty variant: a rejected transfer is propagated as the call's error
execute_pending_propagates_call_error(st, caller, key, ledger_ok) ==
    IF IsVetoed(st.vetoed, key)
    THEN Return(st, Err("AlreadyVetoed"))
    ELSE IF ~MapContains(st.pending_executions, key)
    THEN Return(st, Err("NotFound"))
    ELSE
      LET proposal == st.pending_executions[key][1]
          execute_after == st.pending_executions[key][2]
      IN  IF StillInVetoPeriod(now, execute_after)
          THEN Return(st, Err("StillInVetoPeriod"))
          ELSE
            LET st1 == [st EXCEPT !.pending_executions = MapRemove(@, key)]
                ex == execute(st1, proposal, ledger_ok)
            IN  IF ex.result = "CallFailed"
                THEN Return(st, Err("CallFailed"))
                ELSE Return(Emit(ex.st, Executed(caller, key, ex.result)),
                            OkExecuted(ex.result))
execute_pending(st, caller, key, ledger_ok) ==
    IF IsVetoed(st.vetoed, key)
    THEN Return(st, Err("AlreadyVetoed"))
    ELSE IF ~MapContains(st.pending_executions, key)
    THEN Return(st, Err("NotFound"))
    ELSE
      LET proposal == st.pending_executions[key][1]
          execute_after == st.pending_executions[key][2]
      IN  IF StillInVetoPeriod(now, execute_after)
          THEN Return(st, Err("StillInVetoPeriod"))
          ELSE
            LET st1 == [st EXCEPT !.pending_executions = MapRemove(@, key)]
                ex == execute(st1, proposal, ledger_ok)
            IN  Return(Emit(ex.st, Executed(caller, key, ex.result)),
                       OkExecuted(ex.result))

----------------------------------------------------------------------------
(* The host.  A message that returns Err makes the on-chain host roll back  *)
(* every storage write and event of the call; a direct call of the method  *)
(* (as the unit tests make) keeps them.  A panic aborts the call in both.  *)

Panicked(r) == ~r.ok /\ r.val = "panic"
Kept(r) == r.ok \/ (~host_reverts /\ ~Panicked(r))

\* what the caller of a message learns about who has approved a key: the
\* status a propose or approve returns (lib.rs:149-150, 156-157)
Recorded(op, caller, key, r) ==
    IF r = Ok("PendingApprovals")
    THEN MapInsert(approvers, key,
                   Append(IF op = "propose" \/ ~MapContains(approvers, key)
                          THEN <<>>
                          ELSE approvers[key],
                          caller))
    ELSE IF r = Ok("PendingVetoPeriod")
    THEN MapRemove(approvers, key)
    ELSE approvers

Commit(op, caller, key, st) ==
    LET end == IF Kept(st.result) THEN st ELSE Cur
    IN  /\ threshold' = end.threshold
        /\ judges' = end.judges
        /\ proposals' = end.proposals
        /\ approvals' = end.approvals
        /\ pending_executions' = end.pending_executions
        /\ vetoed' = end.vetoed
        /\ emitted' = end.events
        /\ last' = Call(op, caller, key, now,
                        IF MapContains(pending_executions, key)
                        THEN Some(pending_executions[key])
                        ELSE None,
                        st.result)
        /\ approvers' = Recorded(op, caller, key, st.result)
        /\ UNCHANGED <<veto_authority, now, host_reverts, advances>>
        /\ UNCHANGED pallet

\* the callers tried for each message
ProposeCallers == {alice, django}
ApproveCallers == {alice, bob, charlie, django}
VetoCallers == {alice, django}
ExecuteCallers == {alice, django}
\* the numbers of blocks the chain advances by between calls
AdvanceSteps == {DEFAULT_VETO_PERIOD - 1, DEFAULT_VETO_PERIOD}

----------------------------------------------------------------------------
(* Construction *)

\* assert!(threshold as usize <= judges.len())
NewAccepts(t, js) == t <= Len(js)

\* the constructor arguments tried
NewThresholds == 0..4
NewJudges == {<<alice, bob, charlie>>}
\* the block at which the contract is instantiated
StartHeights == {0}

\* the same for a chain that is within one veto period of its last block
LateStartHeights == {BlockNumberMax - DEFAULT_VETO_PERIOD - 1}

InitAt(heights) ==
    /\ \E t \in NewThresholds, js \in NewJudges :
          /\ NewAccepts(t, js)
          /\ threshold = t
          /\ judges = js
    /\ veto_authority = django
    /\ proposals = EmptyMapping
    /\ approvals = EmptyMapping
    /\ pending_executions = EmptyMapping
    /\ vetoed = EmptyMapping
    /\ now \in heights
    /\ host_reverts \in BOOLEAN
    /\ last = NoCall
    /\ emitted = <<>>
    /\ dispatched = [k \in Keys |-> 0]
    /\ advances = 0
    /\ proposes = 0
    /\ approvers = EmptyMapping
    /\ AccountIdToEvm = EmptyMapping
    /\ EvmToAccountId = EmptyMapping
    /\ linked = NoLink

Init == InitAt(StartHeights)
InitLate == InitAt(LateStartHeights)

----------------------------------------------------------------------------
(* Messages *)

Idle == last = NoCall

Propose(caller, proposal) ==
    LET st == propose(Cur, caller, proposal)
    IN  /\ Idle
        /\ st.result.ok => proposes < MaxProposes
        /\ Commit("propose", caller, KeyOf(proposal), st)
        /\ proposes' = IF st.result.ok THEN proposes + 1 ELSE proposes
        /\ UNCHANGED dispatched

Approve(caller, key) ==
    /\ Idle
    /\ Commit("approve", caller, key, approve(Cur, caller, key))
    /\ UNCHANGED <<dispatched, proposes>>

Veto(caller, key) ==
    /\ Idle
    /\ Commit("veto", caller, key, veto(Cur, caller, key))
    /\ UNCHANGED <<dispatched, proposes>>

ExecutePending(caller, key, ledger_ok) ==
    LET st == execute_pending(Cur, caller, key, ledger_ok)
    IN  /\ Idle
        /\ Commit("execute_pending", caller, key, st)
        /\ UNCHANGED proposes
        /\ dispatched' =
              IF st.result.ok
              THEN [dispatched EXCEPT ![key] = IF @ < DispatchCap THEN @ + 1 ELSE @]
              ELSE dispatched

\* the chain produces blocks
AdvanceBlock(d) ==
    /\ Idle
    /\ advances < MaxAdvances
    /\ d <= BlockNumberMax - now
    /\ now' = now + d
    /\ advances' = advances + 1
    /\ UNCHANGED <<threshold, judges, veto_authority, proposals, approvals,
                   pending_executions, vetoed, host_reverts, last, emitted,
                   dispatched, proposes, approvers>>
    /\ UNCHANGED pallet

\* the call returns: its value and events are with the caller
Complete ==
    /\ ~Idle
    /\ last' = NoCall
    /\ emitted' = <<>>
    /\ UNCHANGED <<threshold, judges, veto_authority, proposals, approvals,
                   pending_executions, vetoed, now, host_reverts, dispatched,
                   advances, proposes, approvers>>
    /\ UNCHANGED pallet

Next ==
    \/ \E caller \in ProposeCallers, proposal \in ProposalInputs :
          Propose(caller, proposal)
    \/ \E caller \in ApproveCallers, key \in Keys : Approve(caller, key)
    \/ \E caller \in VetoCallers, key \in Keys : Veto(caller, key)
    \/ \E caller \in ExecuteCallers, key \in Keys, ledger_ok \in BOOLEAN :
          ExecutePending(caller, key, ledger_ok)
    \/ \E d \in AdvanceSteps : AdvanceBlock(d)
    \/ Complete

Spec == Init /\ [][Next]_vars
\* the contract instantiated near the end of the block numbers
SpecLate == InitLate /\ [][Next]_vars

----------------------------------------------------------------------------
(* Properties *)

InProposalStore(k) == MapContains(proposals, k) \/ MapContains(approvals, k)
InVetoScheduler(k) == MapContains(pending_executions, k)
VetoedFlag(k) == MapContains(vetoed, k) /\ vetoed[k]

\* the step is a call of message op
Calls(op) == Idle /\ last'.op = op

\* C1: no key is in the ProposalStore (proposals or approvals) and in the
\* VetoScheduler (pending_executions) at the same time.
C1_KeyInAtMostOneStore ==
    \A k \in Keys : ~(InProposalStore(k) /\ InVetoScheduler(k))

\* C2: the effect of a key is dispatched at most once.
C2_DispatchedAtMostOnce ==
    \A k \in Keys : dispatched[k] <= 1

\* C3: a key whose vetoed flag is set is never in the VetoScheduler.
C3_VetoedNeverPending ==
    \A k \in Keys : VetoedFlag(k) => ~InVetoScheduler(k)

\* C4: veto is permanent.  A successful veto sets the key's flag; once set,
\* the flag stays set, and every later execute_pending of the key returns
\* AlreadyVetoed and dispatches nothing.
C4_VetoIsPermanent ==
    /\ [](last.op = "veto" /\ last.result.ok => VetoedFlag(last.key))
    /\ [][\A k \in Keys :
            VetoedFlag(k) =>
              /\ VetoedFlag(k)'
              /\ dispatched'[k] = dispatched[k]
              /\ (Calls("execute_pending") /\ last'.key = k)
                    => last'.result = Err("AlreadyVetoed")]_vars

\* reached: execute_pending returned AlreadyVetoed for a key that is in
\* the VetoScheduler with its gate passed
C4_Witness ==
    /\ last.op = "execute_pending"
    /\ last.result = Err("AlreadyVetoed")
    /\ InVetoScheduler(last.key)
    /\ last.now >= pending_executions[last.key][2]

\* C5: threshold <= judges.len() in every state, from construction on.
C5_ThresholdAtMostJudges ==
    threshold <= Len(judges)

\* reached: an executed governance update has replaced threshold and judges
C5_Witness ==
    /\ last.op = "execute_pending"
    /\ last.key = KeyOf(GovValid)
    /\ last.result = OkExecuted("Ok")
    /\ threshold = GovValid.threshold
    /\ judges = GovValid.judges

\* C6: timing gate.  For a key in the VetoScheduler whose flag is not set,
\* execute_pending returns StillInVetoPeriod and keeps the entry when
\* now < execute_after, and returns Executed(outcome) and removes the entry
\* when now >= execute_after.
C6_TimingGate ==
    [][\A k \in Keys :
         (/\ Calls("execute_pending")
          /\ last'.key = k
          /\ InVetoScheduler(k)
          /\ ~VetoedFlag(k))
         => IF now < pending_executions[k][2]
            THEN /\ last'.result = Err("StillInVetoPeriod")
                 /\ pending_executions' = pending_executions
            ELSE /\ last'.result.ok
                 /\ last'.result.val = "Executed"
                 /\ ~InVetoScheduler(k)']_vars

\* reached: an execution at height DEFAULT_VETO_PERIOD.  The contract starts
\* at height 0, so the entry's execute_after was exactly that height.
C6_Witness ==
    /\ last.op = "execute_pending"
    /\ last.result.ok
    /\ last.result.val = "Executed"
    /\ last.now = DEFAULT_VETO_PERIOD

\* C7: the threshold boundary is exact.  With threshold T >= 1, a successful
\* propose or approve that brings a key to fewer than T approvals leaves it
\* in PendingApprovals with the caller added, and the one that brings it to
\* exactly T moves it to the VetoScheduler in that call.
C7_ThresholdBoundary ==
    [][\A k \in Keys :
         (/\ Calls("propose") \/ Calls("approve")
          /\ last'.key = k
          /\ last'.result.ok
          /\ threshold >= 1)
         => LET n == IF last'.op = "propose" THEN 0 ELSE Len(approvals[k])
            IN  /\ n + 1 < threshold =>
                      /\ last'.result = Ok("PendingApprovals")
                      /\ MapContains(proposals', k)
                      /\ MapContains(approvals', k)
                      /\ Len(approvals'[k]) = n + 1
                      /\ pending_executions' = pending_executions
                /\ n + 1 = threshold =>
                      /\ last'.result = Ok("PendingVetoPeriod")
                      /\ ~MapContains(proposals', k)
                      /\ ~MapContains(approvals', k)
                      /\ MapContains(pending_executions', k)]_vars

\* reached: with threshold 3, the third approver's call moved the key
C7_Witness ==
    /\ last.op = "approve"
    /\ last.caller = charlie
    /\ last.result = Ok("PendingVetoPeriod")
    /\ threshold = 3

\* C8: an approve by a judge who is already in the key's ApprovalSet returns
\* AlreadyApproved and leaves proposals and approvals as they were.
C8_DoubleApproveChangesNothing ==
    [][\A k \in Keys :
         (/\ Calls("approve")
          /\ last'.key = k
          /\ Contains(judges, last'.caller)
          /\ MapContains(approvals, k)
          /\ Contains(approvals[k], last'.caller))
         => /\ last'.result = Err("AlreadyApproved")
            /\ UNCHANGED <<proposals, approvals>>]_vars

\* C9: executing a SetGovernance proposal whose threshold exceeds its number
\* of judges, once the gate has passed, returns Executed(Err(InvalidParameters)),
\* leaves threshold and judges as they were and removes the key from the
\* VetoScheduler.
C9_InvalidGovernanceIsAnOutcome ==
    [][\A k \in Keys :
         (/\ Calls("execute_pending")
          /\ last'.key = k
          /\ InVetoScheduler(k)
          /\ ~VetoedFlag(k)
          /\ now >= pending_executions[k][2]
          /\ pending_executions[k][1].tag = "SetGovernance"
          /\ pending_executions[k][1].threshold > Len(pending_executions[k][1].judges))
         => /\ last'.result = OkExecuted("InvalidParameters")
            /\ threshold' = threshold
            /\ judges' = judges
            /\ ~InVetoScheduler(k)']_vars

\* reached: an execution with outcome InvalidParameters
C9_Witness ==
    /\ last.op = "execute_pending"
    /\ last.key = KeyOf(GovInvalid)
    /\ last.result = OkExecuted("InvalidParameters")
    /\ ~InVetoScheduler(last.key)

\* C10: propose or approve by a caller who is not a judge returns
\* Unauthorized, veto by a caller other than the veto authority returns
\* NotVetoAuthority, and a call that returns either changes no storage and
\* emits no event.
C10_AuthorizationFailuresChangeNothing ==
    [][/\ ((Calls("propose") \/ Calls("approve")) /\ ~Contains(judges, last'.caller))
            => last'.result = Err("Unauthorized")
       /\ (Calls("veto") /\ last'.caller # veto_authority)
            => last'.result = Err("NotVetoAuthority")
       /\ (Idle /\ last'.result \in {Err("Unauthorized"), Err("NotVetoAuthority")})
            => /\ UNCHANGED <<governance, storage>>
               /\ emitted' = <<>>]_vars

\* reached: a caller who is no judge tried to approve a proposal that is
\* collecting approvals
C10_Witness ==
    /\ last.op = "approve"
    /\ last.result = Err("Unauthorized")
    /\ MapContains(approvals, last.key)

\* C11: propose by a judge of a proposal whose key is in proposals returns
\* AlreadyExists, changes no storage and emits no event; and a propose
\* that fails returns Unauthorized or AlreadyExists.
C11_DuplicateProposeChangesNothing ==
    [][\A k \in Keys :
         (Calls("propose") /\ last'.key = k) =>
           /\ (Contains(judges, last'.caller) /\ MapContains(proposals, k))
                => /\ last'.result = Err("AlreadyExists")
                   /\ UNCHANGED <<governance, storage>>
                   /\ emitted' = <<>>
           /\ ~last'.result.ok
                => last'.result \in {Err("Unauthorized"), Err("AlreadyExists")}]_vars

\* reached: a judge proposed what is already collecting approvals
C11_Witness ==
    /\ last.op = "propose"
    /\ last.result = Err("AlreadyExists")
    /\ Contains(judges, last.caller)
    /\ MapContains(proposals, last.key)

\* C12: veto by the veto authority of a key that is not in
\* pending_executions returns NotFound, changes no storage (the vetoed flag
\* included) and emits no event.
C12_VetoOfAbsentKeyChangesNothing ==
    [][\A k \in Keys :
         (/\ Calls("veto")
          /\ last'.key = k
          /\ last'.caller = veto_authority
          /\ ~InVetoScheduler(k))
         => /\ last'.result = Err("NotFound")
            /\ UNCHANGED <<governance, storage>>
            /\ emitted' = <<>>]_vars

\* reached: the veto authority tried to veto a key whose effect had
\* already been dispatched
C12_Witness ==
    /\ last.op = "veto"
    /\ last.caller = veto_authority
    /\ last.result = Err("NotFound")
    /\ dispatched[last.key] >= 1
    /\ ~VetoedFlag(last.key)

\* C13: once the gate has passed, execute_pending of a transfer returns
\* Ok(Executed(..)) whatever the ledger answers: a rejected transfer gives
\* Ok(Executed(Err(CallFailed))), the key leaves pending_executions, no
\* other table changes, and execute_pending of the same key on the
\* resulting storage returns NotFound.
GatePassed(k) ==
    /\ InVetoScheduler(k)
    /\ ~VetoedFlag(k)
    /\ now >= pending_executions[k][2]

C13_RejectedTransferIsAnOutcome ==
    /\ [](\A k \in Keys :
            (GatePassed(k) /\ pending_executions[k][1].tag = "LLMForceTransfer")
            => \A c \in ExecuteCallers :
                 LET e == execute_pending(Cur, c, k, FALSE)
                 IN  /\ e.result = OkExecuted("CallFailed")
                     /\ ~MapContains(e.pending_executions, k)
                     /\ \A c2 \in ExecuteCallers, l \in BOOLEAN :
                          execute_pending([e EXCEPT !.events = <<>>],
                                          c2, k, l).result = Err("NotFound"))
    /\ [][\A k \in Keys :
            (/\ Calls("execute_pending")
             /\ last'.key = k
             /\ GatePassed(k)
             /\ pending_executions[k][1].tag = "LLMForceTransfer")
            => /\ last'.result \in {OkExecuted("Ok"), OkExecuted("CallFailed")}
               /\ pending_executions' = MapRemove(pending_executions, k)
               /\ UNCHANGED <<governance, proposals, approvals, vetoed>>]_vars
    /\ []((last.op = "execute_pending" /\ last.result = OkExecuted("CallFailed"))
           => ~InVetoScheduler(last.key))

\* reached: the ledger rejected a transfer whose gate had passed
C13_Witness ==
    /\ last.op = "execute_pending"
    /\ last.result = OkExecuted("CallFailed")
    /\ last.key = KeyOf(Transfer)
    /\ ~InVetoScheduler(last.key)

\* C14: governance changes only through execution.  An execute_pending
\* that passes the gate for SetGovernance{t, js} with t <= len(js) returns
\* Ok(Executed(Ok)) and leaves threshold = t and judges = js; every step
\* that is not such an execution leaves threshold, judges and
\* veto_authority as they were, and no step changes veto_authority.
ExecutesValidGovernance(k) ==
    /\ Calls("execute_pending")
    /\ last'.key = k
    /\ GatePassed(k)
    /\ pending_executions[k][1].tag = "SetGovernance"
    /\ ~InvalidParameters(pending_executions[k][1].threshold,
                          pending_executions[k][1].judges)

C14_GovernanceChangesOnlyByExecution ==
    [][/\ \A k \in Keys :
            ExecutesValidGovernance(k)
            => /\ last'.result = OkExecuted("Ok")
               /\ get_threshold' = pending_executions[k][1].threshold
               /\ get_judges' = pending_executions[k][1].judges
       /\ (governance' # governance)
            => \E k \in Keys : ExecutesValidGovernance(k)
       /\ get_veto_authority' = get_veto_authority]_vars

\* reached: a caller who is not a judge triggered the execution that
\* replaced three judges and the constructor's threshold by two judges
\* and threshold 1
C14_Witness ==
    /\ last.op = "execute_pending"
    /\ last.caller = django
    /\ last.result = OkExecuted("Ok")
    /\ last.key = KeyOf(GovValid)
    /\ threshold = 1
    /\ Len(judges) = 2
    /\ ~Contains(judges, charlie)

\* the proposal a key is the hash of
ProposalOf(k) == CHOOSE p \in ProposalInputs : KeyOf(p) = k

\* C15: get_proposal(key) returns (proposal, approvals) exactly when the
\* key is in PendingApprovals, with approvals the proposer followed by
\* every later successful approver in call order, and it is absent for a
\* key that was never proposed, is in its veto period, is vetoed or has
\* been executed.
C15_GetProposalShowsPendingApprovals ==
    \A k \in Keys :
       /\ get_proposal(k) = IF MapContains(approvers, k)
                            THEN Some(<<ProposalOf(k), approvers[k]>>)
                            ELSE None
       /\ (InVetoScheduler(k) \/ VetoedFlag(k) \/ dispatched[k] > 0)
            => get_proposal(k) = None

\* C16: the call that crosses the threshold records
\* execute_after = its own block number + veto_period, or the largest
\* block number where that sum exceeds it.
C16_ExecuteAfterIsCrossingHeightPlusVetoPeriod ==
    [][\A k \in Keys :
         (/\ Calls("propose") \/ Calls("approve")
          /\ last'.key = k
          /\ last'.result = Ok("PendingVetoPeriod"))
         => /\ InVetoScheduler(k)'
            /\ last'.now = now
            /\ pending_executions'[k][2] =
                 IF now <= BlockNumberMax - DEFAULT_VETO_PERIOD
                 THEN now + DEFAULT_VETO_PERIOD
                 ELSE BlockNumberMax]_vars

\* reached: an approve made after the chain advanced crossed the
\* threshold where height + veto_period exceeds the largest block number
C16_Witness ==
    /\ last.op = "approve"
    /\ last.result = Ok("PendingVetoPeriod")
    /\ advances >= 1
    /\ last.now > BlockNumberMax - DEFAULT_VETO_PERIOD
    /\ InVetoScheduler(last.key)
    /\ pending_executions[last.key][2] = BlockNumberMax

\* C17: the events of one call, in order.  A propose that crosses the
\* threshold emits Proposed then PendingExecution and one that does not
\* emits Proposed then Approved; a successful approve emits one event,
\* Approved when it does not cross and PendingExecution when it does; a
\* successful execute_pending emits one Executed; nothing else is emitted
\* by these calls.
C17_EventsInTransitionOrder ==
    LET c == last.caller
        k == last.key
    IN  /\ (last.op = "propose" /\ last.result = Ok("PendingVetoPeriod"))
             => emitted = <<Proposed(c, k, ProposalOf(k)),
                            PendingExecution(c, k, pending_executions[k][2])>>
        /\ (last.op = "propose" /\ last.result = Ok("PendingApprovals"))
             => emitted = <<Proposed(c, k, ProposalOf(k)), Approved(c, k)>>
        /\ (last.op = "approve" /\ last.result = Ok("PendingApprovals"))
             => emitted = <<Approved(c, k)>>
        /\ (last.op = "approve" /\ last.result = Ok("PendingVetoPeriod"))
             => emitted = <<PendingExecution(c, k, pending_executions[k][2])>>
        /\ (last.op = "execute_pending" /\ last.result.ok)
             => /\ Len(emitted) = 1
                /\ emitted[1].event = "Executed"

\* reached: a propose crossed the threshold by itself and emitted both of
\* its events
C17_Witness ==
    /\ last.op = "propose"
    /\ last.result = Ok("PendingVetoPeriod")
    /\ Len(emitted) = 2
    /\ emitted[1].event = "Proposed"
    /\ emitted[2].event = "PendingExecution"

\* C18: execute_pending checks no authorization: for a key whose gate
\* has passed it succeeds for every caller, judge or not, and its
\* Executed event carries that caller, the key and the outcome that the
\* call returns.
C18_AnyoneExecutesAndIsNamed ==
    [][\A k \in Keys :
         (Calls("execute_pending") /\ last'.key = k /\ GatePassed(k))
         => /\ last'.result.ok
            /\ last'.result.val = "Executed"
            /\ emitted' = <<Executed(last'.caller, k, last'.result.outcome)>>]_vars

\* reached: the execution was triggered by an account that is neither a
\* judge nor an approver of the proposal, and the event names it
C18_Witness ==
    /\ last.op = "execute_pending"
    /\ last.result.ok
    /\ last.caller = django
    /\ ~Contains(judges, django)
    /\ emitted = <<Executed(django, last.key, last.result.outcome)>>

\* C19: no ApprovalSet names an identity twice, and a successful approve
\* that does not cross the threshold appends the caller, who was not in
\* it, to the set of its key (one more member) and leaves the sets of the
\* other keys and all proposals as they were.
NoDuplicates(vec) ==
    \A i, j \in 1..Len(vec) : i # j => vec[i] # vec[j]

C19_ApprovalSetsGrowByDistinctApprovers ==
    /\ [](\A k \in DOMAIN approvals : NoDuplicates(approvals[k]))
    /\ [][\A k \in Keys :
            (/\ Calls("approve")
             /\ last'.key = k
             /\ last'.result = Ok("PendingApprovals"))
            => /\ MapContains(approvals, k)
               /\ \A i \in 1..Len(approvals[k]) : approvals[k][i] # last'.caller
               /\ approvals' = [approvals EXCEPT ![k] = Append(@, last'.caller)]
               /\ Len(approvals'[k]) = Len(approvals[k]) + 1
               /\ proposals' = proposals]_vars

\* reached: a second judge approved one of two proposals that are both
\* collecting approvals
C19_Witness ==
    /\ last.op = "approve"
    /\ last.result = Ok("PendingApprovals")
    /\ MapContains(approvals, last.key)
    /\ Len(approvals[last.key]) = 2
    /\ \E k2 \in Keys \ {last.key} :
          MapContains(approvals, k2) /\ MapContains(proposals, k2)

\* C20: the threshold test is >= on the count that includes the new
\* approver.  A proposal that collects approvals and already has at least
\* `threshold` of them (the threshold was lowered by an executed
\* governance update) stays in the proposals table through every step
\* that is not a successful approve of its key; an approve of its key by
\* a judge who is not in its set succeeds, and every successful approve
\* of its key is by such a judge and moves it into pending_executions.
OverThreshold(k) ==
    /\ MapContains(proposals, k)
    /\ MapContains(approvals, k)
    /\ Len(approvals[k]) >= threshold

C20_LoweredThresholdTakesEffectAtNextApprove ==
    [][\A k \in Keys :
         OverThreshold(k) =>
           /\ (/\ Calls("approve")
                /\ last'.key = k
                /\ Contains(judges, last'.caller)
                /\ ~Contains(approvals[k], last'.caller))
               => last'.result = Ok("PendingVetoPeriod")
           /\ IF Calls("approve") /\ last'.key = k /\ last'.result.ok
              THEN /\ Contains(judges, last'.caller)
                   /\ ~Contains(approvals[k], last'.caller)
                   /\ last'.result = Ok("PendingVetoPeriod")
                   /\ ~MapContains(proposals', k)
                   /\ InVetoScheduler(k)'
                   /\ pending_executions'[k][1] = proposals[k]
              ELSE /\ MapContains(proposals', k)
                   /\ proposals'[k] = proposals[k]]_vars

\* reached: after the executed governance update lowered the threshold
\* to 1, an approve moved a proposal that had been collecting approvals
\* under the constructor's threshold
C20_Witness ==
    /\ last.op = "approve"
    /\ last.result = Ok("PendingVetoPeriod")
    /\ last.key = KeyOf(Transfer)
    /\ dispatched[KeyOf(GovValid)] >= 1
    /\ threshold = GovValid.threshold
    /\ InVetoScheduler(last.key)

\* C21: threshold 0 is a legal configuration.  With threshold = 0 a
\* propose by a judge of a key that is not in proposals returns
\* PendingVetoPeriod in that call and schedules the key a full veto period
\* ahead; until then execute_pending of the key returns StillInVetoPeriod
\* and keeps the entry, and the veto authority's veto of it succeeds.
C21_ThresholdZeroStillWaitsOutTheVetoPeriod ==
    [][\A k \in Keys :
         threshold = 0 =>
           /\ (/\ Calls("propose")
                /\ last'.key = k
                /\ Contains(judges, last'.caller)
                /\ ~MapContains(proposals, k))
               => /\ last'.result = Ok("PendingVetoPeriod")
                  /\ InVetoScheduler(k)'
                  /\ pending_executions'[k][2] = SaturatingAdd(now, veto_period)
                  /\ ~MapContains(proposals', k)
           /\ (/\ Calls("execute_pending")
                /\ last'.key = k
                /\ InVetoScheduler(k)
                /\ now < pending_executions[k][2])
               => /\ ~last'.result.ok
                  /\ pending_executions' = pending_executions
                  /\ dispatched' = dispatched
           /\ (/\ Calls("veto")
                /\ last'.key = k
                /\ last'.caller = veto_authority
                /\ InVetoScheduler(k))
               => /\ last'.result.ok
                  /\ ~InVetoScheduler(k)'
                  /\ VetoedFlag(k)']_vars

\* reached: under threshold 0 a propose went straight into its veto period
C21_Witness ==
    /\ threshold = 0
    /\ last.op = "propose"
    /\ last.result = Ok("PendingVetoPeriod")
    /\ InVetoScheduler(last.key)
    /\ pending_executions[last.key][2] = last.now + DEFAULT_VETO_PERIOD
    /\ dispatched[last.key] = 0

\* C22: the execute_after of a key is fixed when the key enters
\* pending_executions: no step changes it while the key stays there.
C22_ExecuteAfterIsFixed ==
    [][\A k \in Keys :
         (InVetoScheduler(k) /\ InVetoScheduler(k)')
         => pending_executions'[k][2] = pending_executions[k][2]]_vars

\* C23: in every reachable state the approvals table and the proposals
\* table have entries for the same keys, so get_proposal never finds one
\* without the other, and no call panics on the expect in do_approve.
C23_ApprovalsAndProposalsHaveTheSameKeys ==
    /\ DOMAIN approvals = DOMAIN proposals
    /\ \A k \in Keys :
          get_proposal(k) = None
          => ~MapContains(proposals, k) /\ ~MapContains(approvals, k)
    /\ ~Panicked(last.result)

\* the identities in a Vec<AccountId>
Members(vec) == {vec[i] : i \in 1..Len(vec)}

\* C24: every identity counted toward a proposal's threshold is a judge
\* at the moment the threshold is crossed: the approvals of a judge whom
\* an executed governance update has removed do not count any more.
C24_OnlyCurrentJudgesAreCounted ==
    [][\A k \in Keys :
         (/\ Calls("propose") \/ Calls("approve")
          /\ last'.key = k
          /\ last'.result = Ok("PendingVetoPeriod"))
         => LET counted == (IF last'.op = "approve"
                            THEN Members(approvals[k])
                            ELSE {}) \cup {last'.caller}
            IN  /\ \A a \in counted : Contains(judges, a)
                /\ Cardinality({a \in counted : Contains(judges, a)})
                     >= threshold]_vars

\* C25: veto has no upper time limit.  The veto authority's veto of a key
\* in pending_executions succeeds at every height, also at and after
\* execute_after.  For an entry whose gate has passed, whichever of veto
\* and execute_pending is called first decides: after the veto,
\* execute_pending returns AlreadyVetoed; after the execution, veto
\* returns NotFound.
C25_VetoHasNoDeadline ==
    /\ [][\A k \in Keys :
            (/\ Calls("veto")
             /\ last'.key = k
             /\ last'.caller = veto_authority
             /\ InVetoScheduler(k))
            => /\ last'.result.ok
               /\ ~InVetoScheduler(k)'
               /\ VetoedFlag(k)'
               /\ dispatched' = dispatched]_vars
    /\ [](\A k \in Keys :
            GatePassed(k) =>
              LET v == veto(Cur, veto_authority, k)
              IN  /\ v.result.ok
                  /\ \A c \in ExecuteCallers, l \in BOOLEAN :
                       LET e == execute_pending(Cur, c, k, l)
                       IN  /\ e.result.ok
                           /\ veto([e EXCEPT !.events = <<>>],
                                   veto_authority, k).result = Err("NotFound")
                           /\ execute_pending([v EXCEPT !.events = <<>>],
                                             c, k, l).result
                                = Err("AlreadyVetoed"))

\* reached: the veto authority vetoed an entry that could already have
\* been executed
C25_Witness ==
    /\ last.op = "veto"
    /\ last.result.ok
    /\ last.found.some
    /\ last.now >= last.found.value[2]
    /\ VetoedFlag(last.key)
    /\ ~InVetoScheduler(last.key)
    /\ dispatched[last.key] = 0

----------------------------------------------------------------------------
(* The evm-accounts pallet (substrate/frame/evm-accounts/src/lib.rs).  It  *)
(* shares no state with the contract: in its specification the contract's *)
(* variables stay as NoCourt sets them, and in the contract's the pallet's *)
(* maps stay empty.  A dispatchable that returns Err is rolled back by the *)
(* runtime; link_account has written nothing by then.                      *)

\* the accounts and the EVM addresses tried
PalletAccounts == Accounts
H160s == {"0x01", "0x02", "0x03", "0x04"}

\* OriginFor<T>: a signed origin, or one that ensure_signed refuses
Signed(who) == [signed |-> TRUE, who |-> who]
Unsigned == [signed |-> FALSE]
Origins == {Signed(a) : a \in PalletAccounts} \cup {Unsigned}

\* Event::AccountLinked
AccountLinked(account_id, evm_address) ==
    [event |-> "AccountLinked", account_id |-> account_id,
     evm_address |-> evm_address]

\* the storage a dispatchable starts with
CurPallet ==
    [AccountIdToEvm |-> AccountIdToEvm, EvmToAccountId |-> EvmToAccountId,
     event |-> None, result |-> Ok("()")]

\* faulty variant: only the caller is tested for an existing link
link_account_checks_caller_only(st, origin, evm_address) ==
    IF ~origin.signed
    THEN [st EXCEPT !.result = Err("BadOrigin")]
    ELSE
      LET who == origin.who
      IN  IF MapContains(st.AccountIdToEvm, who)
          THEN [st EXCEPT !.result = Err("AccountAlreadyLinked")]
          ELSE [st EXCEPT
                  !.AccountIdToEvm = MapInsert(@, who, evm_address),
                  !.EvmToAccountId = MapInsert(@, evm_address, who),
                  !.event = Some(AccountLinked(who, evm_address))]
link_account(st, origin, evm_address) ==
    IF ~origin.signed
    THEN [st EXCEPT !.result = Err("BadOrigin")]
    ELSE
      LET who == origin.who
      IN  IF MapContains(st.AccountIdToEvm, who)
          THEN [st EXCEPT !.result = Err("AccountAlreadyLinked")]
          ELSE IF MapContains(st.EvmToAccountId, evm_address)
          THEN [st EXCEPT !.result = Err("AccountAlreadyLinked")]
          ELSE [st EXCEPT
                  !.AccountIdToEvm = MapInsert(@, who, evm_address),
                  !.EvmToAccountId = MapInsert(@, evm_address, who),
                  !.event = Some(AccountLinked(who, evm_address))]

\* GenesisConfig::linked_accounts, and the lists whose pairs are one-to-one
GenesisLists ==
    UNION {[1..n -> PalletAccounts \X H160s] : n \in 0..MaxGenesis}
OneToOne(list) ==
    \A i, j \in 1..Len(list) :
       i # j => list[i][1] # list[j][1] /\ list[i][2] # list[j][2]

\* GenesisConfig::build: both inserts for every pair, in list order
RECURSIVE GenesisBuild(_, _)
GenesisBuild(list, st) ==
    IF list = <<>>
    THEN st
    ELSE GenesisBuild(Tail(list),
                      [st EXCEPT
                         !.AccountIdToEvm = MapInsert(@, Head(list)[1], Head(list)[2]),
                         !.EvmToAccountId = MapInsert(@, Head(list)[2], Head(list)[1])])

\* the contract's variables where only the pallet runs
court == <<threshold, judges, veto_authority, proposals, approvals,
           pending_executions, vetoed, now, host_reverts, last, emitted,
           dispatched, advances, proposes, approvers>>
NoCourt ==
    /\ threshold = 0
    /\ judges = <<>>
    /\ veto_authority = django
    /\ proposals = EmptyMapping
    /\ approvals = EmptyMapping
    /\ pending_executions = EmptyMapping
    /\ vetoed = EmptyMapping
    /\ now = 0
    /\ host_reverts = TRUE
    /\ last = NoCall
    /\ emitted = <<>>
    /\ dispatched = [k \in Keys |-> 0]
    /\ advances = 0
    /\ proposes = 0
    /\ approvers = EmptyMapping

InitPallet ==
    /\ NoCourt
    /\ \E list \in GenesisLists :
          /\ OneToOne(list)
          /\ LET g == GenesisBuild(list, [AccountIdToEvm |-> EmptyMapping,
                                          EvmToAccountId |-> EmptyMapping])
             IN  /\ AccountIdToEvm = g.AccountIdToEvm
                 /\ EvmToAccountId = g.EvmToAccountId
    /\ linked = NoLink

LinkAccount(origin, evm_address) ==
    LET st == link_account(CurPallet, origin, evm_address)
    IN  /\ AccountIdToEvm' = st.AccountIdToEvm
        /\ EvmToAccountId' = st.EvmToAccountId
        /\ linked' = [op |-> "link_account", origin |-> origin,
                      evm_address |-> evm_address, result |-> st.result,
                      event |-> st.event]
        /\ UNCHANGED court

NextPallet ==
    \E origin \in Origins, evm_address \in H160s :
       LinkAccount(origin, evm_address)

SpecPallet == InitPallet /\ [][NextPallet]_vars

\* C26: from a genesis whose pairs are one-to-one, AccountIdToEvm and
\* EvmToAccountId are mutual inverses after every sequence of
\* link_account calls; a link_account whose caller or whose EVM address
\* is already linked returns AccountAlreadyLinked, changes neither map and
\* deposits no event; and no call overwrites or removes a link.
MutualInverses ==
    /\ \A a \in DOMAIN AccountIdToEvm :
          /\ MapContains(EvmToAccountId, AccountIdToEvm[a])
          /\ EvmToAccountId[AccountIdToEvm[a]] = a
    /\ \A e \in DOMAIN EvmToAccountId :
          /\ MapContains(AccountIdToEvm, EvmToAccountId[e])
          /\ AccountIdToEvm[EvmToAccountId[e]] = e

C26_LinksAreOneToOneAndPermanent ==
    /\ []MutualInverses
    /\ [][linked'.op = "link_account" =>
            LET o == linked'.origin
                e == linked'.evm_address
            IN  /\ (/\ o.signed
                     /\ \/ MapContains(AccountIdToEvm, o.who)
                        \/ MapContains(EvmToAccountId, e))
                    => /\ linked'.result = Err("AccountAlreadyLinked")
                       /\ UNCHANGED <<AccountIdToEvm, EvmToAccountId>>
                       /\ linked'.event = None
                /\ (/\ o.signed
                     /\ ~MapContains(AccountIdToEvm, o.who)
                     /\ ~MapContains(EvmToAccountId, e))
                    => /\ linked'.result.ok
                       /\ AccountIdToEvm' = MapInsert(AccountIdToEvm, o.who, e)
                       /\ EvmToAccountId' = MapInsert(EvmToAccountId, e, o.who)
                /\ \A a \in DOMAIN AccountIdToEvm :
                      /\ MapContains(AccountIdToEvm', a)
                      /\ AccountIdToEvm'[a] = AccountIdToEvm[a]
                /\ \A x \in DOMAIN EvmToAccountId :
                      /\ MapContains(EvmToAccountId', x)
                      /\ EvmToAccountId'[x] = EvmToAccountId[x]]_vars

\* reached: after more links than the genesis made, an account without a
\* link asked for an address that belongs to another account
C26_Witness ==
    /\ linked.op = "link_account"
    /\ linked.origin.signed
    /\ linked.result = Err("AccountAlreadyLinked")
    /\ ~MapContains(AccountIdToEvm, linked.origin.who)
    /\ MapContains(EvmToAccountId, linked.evm_address)
    /\ Cardinality(DOMAIN AccountIdToEvm) > MaxGenesis

====
